---- MODULE Spec2Model ----
(***************************************************************************)
(* Model of the IoT real-time data pipeline:                               *)
(*   - DataValidator            (src/test_detector.py)                     *)
(*   - S3Uploader.upload        (src/api_client.py)                        *)
(*   - run_realtime_pipeline    (src/s3_uploader.py)                       *)
(*                                                                         *)
(* Strings are sequences of one-token strings.  The tokens of a timestamp  *)
(* text are "D" (a date-time body such as 2024-01-01T00:00:00), "Z" (the   *)
(* letter Z), "O" (the offset text +00:00) and "x" (any other character).  *)
(* The tokens of a sensor_id text are " " (whitespace) and "s" (any other  *)
(* character).                                                             *)
(***************************************************************************)
EXTENDS Integers, Sequences, FiniteSets, TLC

VARIABLES
    \* ---- DataValidator.validate (one call) ----
    records,        \* the argument of validate
    vidx,           \* number of records the for loop has consumed
    valid,          \* local list valid
    invalid,        \* local list invalid
    vpc,            \* "loop" | "returned"
    \* ---- run_realtime_pipeline ----
    pc,             \* position of the engine in the loop body
    cycle,          \* number of cycles started
    raw_data,       \* result of fetch_latest_readings
    valid_data,     \* first component of validator.validate(raw_data)
    invalid_records,\* second component of validator.validate(raw_data)
    clean_data,     \* first component of detector.detect(valid_data)
    anomalies,      \* second component of detector.detect(valid_data)
    upload_result,  \* result of s3_uploader.upload(clean_data)
    invoked,        \* calls of the try block made in the current cycle, in
                    \* order: [stage, end], end being how the call ended
    raised,         \* stage whose exception ended the current cycle, or "none"
    outcomes,       \* terminal monitor calls made for the current cycle, in order
    monitor,        \* counters kept by PipelineMonitor
    clock,          \* wall clock (UTC), [secs, micro]
    store,          \* object store: set of [key, body, metadata], one per key
    puts,           \* history of put_object calls on the store, in order:
                    \* [by, cycle, key, ok, body], by being the engine instance
    \* ---- the process around the engine ----
    main,           \* main(): [pc, mode, date, exit_status, batch_calls,
                    \* realtime_calls]
    other,          \* a second engine instance on the same store:
                    \* [present, last], last being the time of its last put
    window          \* most items the source serves per fetch

vvars == <<records, vidx, valid, invalid, vpc>>
pvars == <<pc, cycle, raw_data, valid_data, invalid_records, clean_data,
           anomalies, upload_result, invoked, raised, outcomes, monitor,
           clock, store, puts>>
xvars == <<main, other, window>>
vars == <<records, vidx, valid, invalid, vpc,
          pc, cycle, raw_data, valid_data, invalid_records, clean_data,
          anomalies, upload_result, invoked, raised, outcomes, monitor,
          clock, store, puts, main, other, window>>

----------------------------------------------------------------------------
\* Bounds

\* longest timestamp text, in tokens
MaxTsLen == 2
\* longest sensor_id text, in tokens
MaxIdLen == 2
\* longest sequence of readings handed to one call of validate
MaxRecords == 3
\* longest sequence of items returned by fetch_latest_readings
MaxFetch == 2
\* cycles the engine may start
MaxCycles == 2

----------------------------------------------------------------------------
\* Values and readings

RECURSIVE SeqsUpTo(_, _)
SeqsUpTo(S, n) ==
    IF n = 0 THEN {<<>>}
    ELSE LET shorter == SeqsUpTo(S, n - 1)
         IN  shorter \cup {Append(s, x) : s \in {t \in shorter : Len(t) = n - 1}, x \in S}

TsTokens == {"D", "Z", "O", "x"}
IdTokens == {" ", "s"}

Absent   == [kind |-> "absent",   s |-> <<>>]
None     == [kind |-> "NoneType", s |-> <<>>]
IntV     == [kind |-> "int",      s |-> <<>>]
FloatV   == [kind |-> "float",    s |-> <<>>]
BoolV    == [kind |-> "bool",     s |-> <<>>]
ListV    == [kind |-> "list",     s |-> <<>>]
Str(t)   == [kind |-> "str",      s |-> t]

REQUIRED_FIELDS == <<"sensor_id", "timestamp", "temperature">>

\* the keys of FIELD_TYPES in insertion order
FIELD_ORDER == <<"sensor_id", "timestamp", "temperature", "humidity",
                 "pressure", "vibration", "voltage">>

FIELD_TYPES ==
    [f \in {FIELD_ORDER[i] : i \in 1..Len(FIELD_ORDER)} |->
        IF f \in {"sensor_id", "timestamp"} THEN "str" ELSE "(int, float)"]

Fields == DOMAIN FIELD_TYPES
OptionalFields == {"humidity", "pressure", "vibration", "voltage"}

\* isinstance(v, expected_type): bool is a subclass of int
IsInstance(v, expected) ==
    IF expected = "str" THEN v.kind = "str"
    ELSE v.kind \in {"int", "float", "bool"}

\* bool(v) for the values of the model
Truthy(v) ==
    CASE v.kind \in {"absent", "NoneType"} -> FALSE
      [] v.kind = "str" -> Len(v.s) > 0
      [] OTHER -> TRUE

\* str(v): a str is itself, any other value prints as text that is no date
StrOf(v) == IF v.kind = "str" THEN v.s ELSE <<"x">>

\* s.replace("Z", "+00:00"): every occurrence is replaced
ReplaceZ(s) == [i \in 1..Len(s) |-> IF s[i] = "Z" THEN "O" ELSE s[i]]

\* datetime.fromisoformat(s) succeeds: a date-time body, optionally followed
\* by one UTC offset
FromIsoformatOk(s) == s = <<"D">> \/ s = <<"D", "O">>

\* s.strip() == ""
StripIsEmpty(s) == \A i \in 1..Len(s) : s[i] = " "

----------------------------------------------------------------------------
\* DataValidator

Error(rule, field, expected, got, text) ==
    [rule |-> rule, field |-> field, expected |-> expected, got |-> got, text |-> text]

\* "Missing required field: '<field>'"
MissingError(f) == Error("Missing required field", f, "", "", <<>>)
\* "Invalid type for '<field>': expected <type>, got <type>"
TypeError(f, v) == Error("Invalid type", f, FIELD_TYPES[f], v.kind, <<>>)
\* "Invalid timestamp format: '<text>'"
TimestampError(v) == Error("Invalid timestamp format", "timestamp", "", "", StrOf(v))
\* "sensor_id cannot be empty"
EmptyIdError == Error("sensor_id cannot be empty", "sensor_id", "", "", <<>>)

\* field in record
In(f, record) == record[f].kind # "absent"

\* the required-field check without its "is None" half
IsMissingAbsentOnly(record, f) == ~In(f, record)

\* the condition of the required-field check
IsMissing(record, f) == ~In(f, record) \/ record[f] = None

\* the condition of the type check
IsWrongType(record, f) ==
    /\ In(f, record) /\ record[f] # None
    /\ ~IsInstance(record[f], FIELD_TYPES[f])

\* the condition of the timestamp check and the outcome of its try block
IsBadTimestamp(record) ==
    /\ In("timestamp", record) /\ Truthy(record["timestamp"])
    /\ ~FromIsoformatOk(ReplaceZ(StrOf(record["timestamp"])))

\* the condition of the sensor_id check
IsBlankId(record) ==
    /\ In("sensor_id", record) /\ record["sensor_id"] # None
    /\ StripIsEmpty(StrOf(record["sensor_id"]))

\* the errors list of _validate_record, in the order the checks append
RecordErrors(record) ==
    LET miss  == SelectSeq(REQUIRED_FIELDS, LAMBDA f : IsMissing(record, f))
        wrong == SelectSeq(FIELD_ORDER, LAMBDA f : IsWrongType(record, f))
    IN  [i \in 1..Len(miss) |-> MissingError(miss[i])]
        \o [i \in 1..Len(wrong) |-> TypeError(wrong[i], record[wrong[i]])]
        \o (IF IsBadTimestamp(record) THEN <<TimestampError(record["timestamp"])>> ELSE <<>>)
        \o (IF IsBlankId(record) THEN <<EmptyIdError>> ELSE <<>>)

\* _validate_record returns (len(errors) == 0, errors)
ValidateRecord(record) ==
    LET errors == RecordErrors(record)
    IN  [is_valid |-> Len(errors) = 0, errors |-> errors]

\* the loop body putting a valid record at the front of the list
AppendVerdictFront(acc, record) ==
    LET v == ValidateRecord(record)
    IN  IF v.is_valid
        THEN [valid |-> <<record>> \o acc.valid, invalid |-> acc.invalid]
        ELSE [valid |-> acc.valid,
              invalid |-> Append(acc.invalid, [record |-> record, errors |-> v.errors])]

\* the body of the for loop of validate
AppendVerdict(acc, record) ==
    LET v == ValidateRecord(record)
    IN  IF v.is_valid
        THEN [valid |-> Append(acc.valid, record), invalid |-> acc.invalid]
        ELSE [valid |-> acc.valid,
              invalid |-> Append(acc.invalid, [record |-> record, errors |-> v.errors])]

\* a validator that lets every record through
ValidateKeepAll(recs) == [valid |-> recs, invalid |-> <<>>]

\* validate(records) as one call: the loop run over the whole list
RECURSIVE ValidateFrom(_, _, _)
ValidateFrom(recs, i, acc) ==
    IF i > Len(recs) THEN acc
    ELSE ValidateFrom(recs, i + 1, AppendVerdict(acc, recs[i]))

Validate(recs) == ValidateFrom(recs, 1, [valid |-> <<>>, invalid |-> <<>>])

----------------------------------------------------------------------------
\* Inputs of the validator

StrValues(tokens, n) == {Str(t) : t \in SeqsUpTo(tokens, n)}

SensorIdValues    == {Absent, None, IntV} \cup StrValues(IdTokens, MaxIdLen)
TimestampValues   == {Absent, None, IntV} \cup StrValues(TsTokens, MaxTsLen)
TemperatureValues == {Absent, None, IntV, FloatV, BoolV, Str(<<"x">>)}
OptionalValues    == {None, FloatV, BoolV, Str(<<"x">>)}

Reading(sid, ts, temp, optf, optv) ==
    [f \in Fields |->
        CASE f = "sensor_id"   -> sid
          [] f = "timestamp"   -> ts
          [] f = "temperature" -> temp
          [] OTHER             -> IF f = optf THEN optv ELSE Absent]

\* readings with any sensor_id, timestamp and temperature and at most one
\* optional measurement
AllReadings ==
    {Reading(sid, ts, temp, "humidity", Absent) :
        sid \in SensorIdValues, ts \in TimestampValues, temp \in TemperatureValues}
    \cup
    {Reading(sid, ts, FloatV, optf, optv) :
        sid \in SensorIdValues, ts \in TimestampValues,
        optf \in OptionalFields, optv \in OptionalValues}

Good(id) == Reading(Str(id), Str(<<"D", "Z">>), FloatV, "humidity", Absent)

\* readings that batches are built from
SampleReadings ==
    { Good(<<"s">>),
      Good(<<"s", "s">>),
      Reading(Absent, Str(<<"D", "Z">>), FloatV, "humidity", Absent),
      Reading(Str(<<"s">>), Str(<<>>), BoolV, "humidity", Absent),
      Reading(Str(<<" ">>), Str(<<"x">>), Str(<<"x">>), "voltage", Str(<<"x">>)) }

----------------------------------------------------------------------------
\* S3Uploader

bucket_name == "iot-pipeline-data"

\* calendar fields (UTC, proleptic Gregorian) of a POSIX time in seconds
CivilFromSecs(secs) ==
    LET days == secs \div 86400
        rem  == secs % 86400
        z    == days + 719468
        era  == z \div 146097
        doe  == z - era * 146097
        yoe  == (doe - doe \div 1460 + doe \div 36524 - doe \div 146096) \div 365
        doy  == doe - (365 * yoe + yoe \div 4 - yoe \div 100)
        mp   == (5 * doy + 2) \div 153
        d    == doy - (153 * mp + 2) \div 5 + 1
        m    == IF mp < 10 THEN mp + 3 ELSE mp - 9
        y    == yoe + era * 400 + (IF m <= 2 THEN 1 ELSE 0)
    IN  [year |-> y, month |-> m, day |-> d,
         hour |-> rem \div 3600, minute |-> (rem \div 60) % 60, second |-> rem % 60]

\* datetime.utcnow() when the clock reads secs and the sub-second part is micro
UtcNow(secs, micro) ==
    LET c == CivilFromSecs(secs)
    IN  [year |-> c.year, month |-> c.month, day |-> c.day, hour |-> c.hour,
         minute |-> c.minute, second |-> c.second, microsecond |-> micro]

Digit(n) == CASE n = 0 -> "0" [] n = 1 -> "1" [] n = 2 -> "2" [] n = 3 -> "3"
              [] n = 4 -> "4" [] n = 5 -> "5" [] n = 6 -> "6" [] n = 7 -> "7"
              [] n = 8 -> "8" [] n = 9 -> "9"

\* n printed in decimal, zero-padded to w digits (%m, %d, %H, %M, %S with
\* w = 2; %Y and the year of isoformat with w = 4; microseconds with w = 6)
RECURSIVE Padded(_, _)
Padded(n, w) == IF w = 0 THEN <<>> ELSE Append(Padded(n \div 10, w - 1), Digit(n % 10))

\* str(n) for n >= 0
RECURSIVE DecStr(_)
DecStr(n) == IF n < 10 THEN <<Digit(n)>> ELSE Append(DecStr(n \div 10), Digit(n % 10))

\* the key built without zero padding
S3KeyUnpadded(now) ==
    <<"clean-data/">>
    \o <<"year=">>  \o DecStr(now.year)  \o <<"/">>
    \o <<"month=">> \o DecStr(now.month) \o <<"/">>
    \o <<"day=">>   \o DecStr(now.day)   \o <<"/">>
    \o DecStr(now.hour) \o <<"-">> \o DecStr(now.minute) \o <<"-">>
    \o DecStr(now.second) \o <<"-readings.json">>

\* the f-string that builds s3_key
S3Key(now) ==
    <<"clean-data/">>
    \o <<"year=">>  \o Padded(now.year, 4)  \o <<"/">>
    \o <<"month=">> \o Padded(now.month, 2) \o <<"/">>
    \o <<"day=">>   \o Padded(now.day, 2)   \o <<"/">>
    \o Padded(now.hour, 2) \o <<"-">> \o Padded(now.minute, 2) \o <<"-">>
    \o Padded(now.second, 2) \o <<"-readings.json">>

\* now.isoformat(): the fraction is printed only when it is not zero
IsoFormat(now) ==
    Padded(now.year, 4) \o <<"-">> \o Padded(now.month, 2) \o <<"-">>
    \o Padded(now.day, 2) \o <<"T">>
    \o Padded(now.hour, 2) \o <<":">> \o Padded(now.minute, 2) \o <<":">>
    \o Padded(now.second, 2)
    \o (IF now.microsecond = 0 THEN <<>> ELSE <<".">> \o Padded(now.microsecond, 6))

\* the payload dict; json.dumps of it is the object's body
Payload(data, now) ==
    [pipeline_version |-> "1.0", upload_timestamp |-> IsoFormat(now),
     record_count |-> Len(data), records |-> data]

\* the Metadata argument of put_object
Metadata(data, now) ==
    [record_count |-> DecStr(Len(data)), upload_timestamp |-> IsoFormat(now),
     pipeline |-> "iot-realtime-data-pipeline"]

\* the object put_object is called with
PutRequest(data, now) ==
    [key |-> S3Key(now), body |-> Payload(data, now), metadata |-> Metadata(data, now)]

\* the dict returned for empty data
SkippedResult == [status |-> "skipped", reason |-> "empty data"]

\* the dict returned after a successful put_object
SuccessResult(data, now) ==
    [status |-> "success", s3_key |-> S3Key(now),
     s3_uri |-> <<"s3://", bucket_name, "/">> \o S3Key(now),
     record_count |-> Len(data), timestamp |-> IsoFormat(now)]

\* a store that keeps the object it already has under a key
PutObjectKeepFirst(st, obj) ==
    IF \E o \in st : o.key = obj.key THEN st ELSE st \cup {obj}

\* put_object replaces the object stored under the same key
PutObject(st, obj) == {o \in st : o.key # obj.key} \cup {obj}

----------------------------------------------------------------------------
\* One call of DataValidator.validate, record by record

ValidateInputs ==
    SeqsUpTo(SampleReadings, MaxRecords) \cup {<<r>> : r \in AllReadings}

\* one iteration of the for loop
ValidateLoop ==
    /\ vpc = "loop"
    /\ vidx < Len(records)
    /\ LET acc == AppendVerdict([valid |-> valid, invalid |-> invalid], records[vidx + 1])
       IN  /\ valid' = acc.valid
           /\ invalid' = acc.invalid
    /\ vidx' = vidx + 1
    /\ UNCHANGED <<records, vpc>>
    /\ UNCHANGED <<pvars, xvars>>

\* return valid, invalid
ValidateReturn ==
    /\ vpc = "loop"
    /\ vidx = Len(records)
    /\ vpc' = "returned"
    /\ UNCHANGED <<records, vidx, valid, invalid>>
    /\ UNCHANGED <<pvars, xvars>>

----------------------------------------------------------------------------
\* run_realtime_pipeline

POLL_INTERVAL == 30

\* a fetched item that is not a dict (a JSON null, number or list)
NonMapping == [f \in Fields |-> [kind |-> "nondict", s |-> <<>>]]

MissingId == Reading(Absent, Str(<<"D", "Z">>), FloatV, "humidity", Absent)

\* clock readings the engine may start at: 2024-03-07T09:05:33 and
\* 2024-12-31T23:59:30
StartClocks == {1709802333, 1735689570}
\* sub-second parts a clock reading may have
Micros == {0, 123456}
\* seconds by which a sleep may overrun
Overruns == {0, 1}

NoResult == [status |-> "unbound"]

Outcome(kind, error, processed, clean, anom) ==
    [kind |-> kind, error |-> error, records_processed |-> processed,
     records_clean |-> clean, anomaly_count |-> anom]

Call(stage, end) == [stage |-> stage, end |-> end]

\* upload without its guard for empty data
IsEmptyDataNever(data) == FALSE

\* not data
IsEmptyData(data) == Len(data) = 0

\* an engine that goes straight to the sleep when nothing was fetched
AfterFetchSkipEmpty(data) == IF Len(data) = 0 THEN "sleep" ELSE "validate"

\* control after fetch_latest_readings has returned data: the next statement
AfterFetch(data) == "validate"

\* control after validate has returned valid_data: the next statement
AfterValidate(data) == "detect"

\* control after detect has returned: if anomalies, the alert block
AfterDetect(anoms) == IF Len(anoms) > 0 THEN "alert" ELSE "upload"

\* the subsequence of seq at the positions in keep
RECURSIVE Pick(_, _, _)
Pick(seq, keep, i) ==
    IF i > Len(seq) THEN <<>>
    ELSE (IF i \in keep THEN <<seq[i]>> ELSE <<>>) \o Pick(seq, keep, i + 1)

\* the feed the source serves: two good readings, one without sensor_id and
\* one item that is not a dict
Feed == <<Good(<<"s">>), MissingId, Good(<<"s", "s">>), NonMapping>>
\* what fetch_latest_readings may return: up to MaxFetch items of the feed, in
\* feed order
FetchResults ==
    {Pick(Feed, keep, 1) : keep \in {k \in SUBSET (1..Len(Feed)) : Cardinality(k) <= MaxFetch}}

\* an engine that tries the upload again when it has raised
FailRetryUpload(stage, error) ==
    IF stage = "upload"
    THEN /\ pc' = "upload"
         /\ UNCHANGED <<raised, outcomes, monitor>>
    ELSE /\ raised' = stage
         /\ outcomes' = Append(outcomes, Outcome("failure", error, 0, 0, 0))
         /\ monitor' = [monitor EXCEPT !.failures = @ + 1]
         /\ pc' = "sleep"

\* an engine that swallows the exception and goes on to the upload
FailSwallow(stage, error) ==
    /\ raised' = stage
    /\ pc' = "upload"
    /\ UNCHANGED <<outcomes, monitor>>

\* the except Exception clause: monitor.record_cycle_failure(str(e)), then
\* control reaches time.sleep
Fail(stage, error) ==
    /\ raised' = stage
    /\ outcomes' = Append(outcomes, Outcome("failure", error, 0, 0, 0))
    /\ monitor' = [monitor EXCEPT !.failures = @ + 1]
    /\ pc' = "sleep"

\* top of the while loop: monitor.record_cycle_start()
CycleStart ==
    /\ pc = "cycle_start"
    /\ cycle < MaxCycles
    /\ cycle' = cycle + 1
    /\ monitor' = [monitor EXCEPT !.cycles_started = @ + 1]
    /\ invoked' = <<>>
    /\ raised' = "none"
    /\ outcomes' = <<>>
    /\ pc' = "fetch"
    /\ UNCHANGED <<raw_data, valid_data, invalid_records, clean_data, anomalies,
                   upload_result, clock, store, puts>>
    /\ UNCHANGED <<vvars, xvars>>

\* Step 1: raw_data = api_client.fetch_latest_readings()
Fetch ==
    /\ pc = "fetch"
    /\ \/ \E r \in FetchResults :
            /\ Len(r) <= window
            /\ raw_data' = r
            /\ invoked' = Append(invoked, Call("fetch", "returned"))
            /\ pc' = AfterFetch(r)
            /\ UNCHANGED <<raised, outcomes, monitor>>
       \/ /\ invoked' = Append(invoked, Call("fetch", "raised"))
          /\ Fail("fetch", "TransportError")
          /\ UNCHANGED raw_data
    /\ UNCHANGED <<cycle, valid_data, invalid_records, clean_data, anomalies,
                   upload_result, clock, store, puts>>
    /\ UNCHANGED <<vvars, xvars>>

\* Step 2: valid_data, invalid_records = validator.validate(raw_data), then
\* monitor.record_validation_failures when there are invalid records.
\* A record that is not a dict makes _validate_record raise.
ValidateStage ==
    /\ pc = "validate"
    /\ IF \E i \in 1..Len(raw_data) : raw_data[i] = NonMapping
       THEN /\ invoked' = Append(invoked, Call("validate", "raised"))
            /\ Fail("validate", "TypeError")
            /\ UNCHANGED <<valid_data, invalid_records>>
       ELSE LET res == Validate(raw_data)
            IN  /\ valid_data' = res.valid
                /\ invalid_records' = res.invalid
                /\ monitor' = IF Len(res.invalid) > 0
                              THEN [monitor EXCEPT !.validation_failures = @ + Len(res.invalid)]
                              ELSE monitor
                /\ invoked' = Append(invoked, Call("validate", "returned"))
                /\ pc' = AfterValidate(res.valid)
                /\ UNCHANGED <<raised, outcomes>>
    /\ UNCHANGED <<cycle, raw_data, clean_data, anomalies, upload_result, clock,
                   store, puts>>
    /\ UNCHANGED <<vvars, xvars>>

\* Step 3: clean_data, anomalies = detector.detect(valid_data).  The detector
\* returns a partition of its input, in input order, or raises.
Detect ==
    /\ pc = "detect"
    /\ \/ \E flagged \in SUBSET (1..Len(valid_data)) :
            /\ clean_data' = Pick(valid_data, (1..Len(valid_data)) \ flagged, 1)
            /\ anomalies' = Pick(valid_data, flagged, 1)
            /\ invoked' = Append(invoked, Call("detect", "returned"))
            /\ pc' = AfterDetect(Pick(valid_data, flagged, 1))
            /\ UNCHANGED <<raised, outcomes, monitor>>
       \/ /\ invoked' = Append(invoked, Call("detect", "raised"))
          /\ Fail("detect", "DetectionError")
          /\ UNCHANGED <<clean_data, anomalies>>
    /\ UNCHANGED <<cycle, raw_data, valid_data, invalid_records, upload_result,
                   clock, store, puts>>
    /\ UNCHANGED <<vvars, xvars>>

\* if anomalies: alert_handler.send_alerts(anomalies), then
\* monitor.record_anomalies(len(anomalies))
Alert ==
    /\ pc = "alert"
    /\ \/ /\ monitor' = [monitor EXCEPT !.anomalies = @ + Len(anomalies)]
          /\ invoked' = Append(invoked, Call("alert", "returned"))
          /\ pc' = "upload"
          /\ UNCHANGED <<raised, outcomes>>
       \/ /\ invoked' = Append(invoked, Call("alert", "raised"))
          /\ Fail("alert", "AlertError")
    /\ UNCHANGED <<cycle, raw_data, valid_data, invalid_records, clean_data,
                   anomalies, upload_result, clock, store, puts>>
    /\ UNCHANGED <<vvars, xvars>>

\* Step 5, reached when upload_result['s3_key'] is evaluated without error:
\* monitor.record_cycle_success(...)
RecordSuccess ==
    /\ outcomes' = Append(outcomes, Outcome("success", "", Len(raw_data),
                                            Len(clean_data), Len(anomalies)))
    /\ monitor' = [monitor EXCEPT !.successes = @ + 1]
    /\ pc' = "sleep"
    /\ UNCHANGED raised

\* the rest of the try block once upload has returned result: the log line
\* reads result['s3_key'] (KeyError when the key is absent), then Step 5
AfterUpload(result) ==
    IF "s3_key" \in DOMAIN result
    THEN RecordSuccess
    ELSE Fail("engine", "KeyError")

\* Step 4: upload_result = s3_uploader.upload(clean_data), and the rest of the
\* try block
Upload ==
    /\ pc = "upload"
    /\ IF IsEmptyData(clean_data)
       THEN /\ upload_result' = SkippedResult
            /\ invoked' = Append(invoked, Call("upload", "returned"))
            /\ UNCHANGED <<store, puts>>
            /\ AfterUpload(SkippedResult)
       ELSE \E micro \in Micros :
            LET now == UtcNow(clock, micro)
                req == PutRequest(clean_data, now)
            IN  \/ /\ store' = PutObject(store, req)
                   /\ puts' = Append(puts, [by |-> 1, cycle |-> cycle, key |-> req.key,
                                         ok |-> TRUE, body |-> req.body])
                   /\ upload_result' = SuccessResult(clean_data, now)
                   /\ invoked' = Append(invoked, Call("upload", "returned"))
                   /\ AfterUpload(SuccessResult(clean_data, now))
                \/ /\ puts' = Append(puts, [by |-> 1, cycle |-> cycle, key |-> req.key,
                                         ok |-> FALSE])
                   /\ invoked' = Append(invoked, Call("upload", "raised"))
                   /\ Fail("upload", "ClientError")
                   /\ UNCHANGED <<store, upload_result>>
    /\ UNCHANGED <<cycle, raw_data, valid_data, invalid_records, clean_data,
                   anomalies, clock>>
    /\ UNCHANGED <<vvars, xvars>>

\* a loop that ends after a cycle that failed
SleepExitAfterFailure ==
    /\ pc = "sleep"
    /\ \E over \in Overruns : clock' = clock + POLL_INTERVAL + over
    /\ pc' = IF raised = "none" THEN "cycle_start" ELSE "exited"
    /\ UNCHANGED <<cycle, raw_data, valid_data, invalid_records, clean_data,
                   anomalies, upload_result, invoked, raised, outcomes, monitor,
                   store, puts>>
    /\ UNCHANGED <<vvars, xvars>>

\* time.sleep(POLL_INTERVAL)
Sleep ==
    /\ pc = "sleep"
    /\ \E over \in Overruns : clock' = clock + POLL_INTERVAL + over
    /\ pc' = "cycle_start"
    /\ UNCHANGED <<cycle, raw_data, valid_data, invalid_records, clean_data,
                   anomalies, upload_result, invoked, raised, outcomes, monitor,
                   store, puts>>
    /\ UNCHANGED <<vvars, xvars>>

\* KeyboardInterrupt delivered while a call of the try block is running:
\* except KeyboardInterrupt, break
InterruptInCycle ==
    /\ pc \in {"fetch", "validate", "detect", "alert", "upload"}
    /\ invoked' = Append(invoked, Call(pc, "interrupted"))
    /\ pc' = "stopped"
    /\ UNCHANGED <<cycle, raw_data, valid_data, invalid_records, clean_data,
                   anomalies, upload_result, raised, outcomes, monitor, clock,
                   store, puts>>
    /\ UNCHANGED <<vvars, xvars>>

\* KeyboardInterrupt delivered during time.sleep, outside the try statement:
\* it propagates out of run_realtime_pipeline
InterruptInSleep ==
    /\ pc = "sleep"
    /\ pc' = "aborted"
    /\ UNCHANGED <<cycle, raw_data, valid_data, invalid_records, clean_data,
                   anomalies, upload_result, invoked, raised, outcomes, monitor,
                   clock, store, puts>>
    /\ UNCHANGED <<vvars, xvars>>

----------------------------------------------------------------------------
\* Specifications

PipelineInit ==
    /\ pc = "cycle_start"
    /\ cycle = 0
    /\ raw_data = <<>>
    /\ valid_data = <<>>
    /\ invalid_records = <<>>
    /\ clean_data = <<>>
    /\ anomalies = <<>>
    /\ upload_result = NoResult
    /\ invoked = <<>>
    /\ raised = "none"
    /\ outcomes = <<>>
    /\ monitor = [cycles_started |-> 0, validation_failures |-> 0, anomalies |-> 0,
                  successes |-> 0, failures |-> 0]
    /\ store = {}
    /\ puts = <<>>

\* main() has parsed --mode realtime and is inside run_realtime_pipeline
MainInRealtime ==
    [pc |-> "realtime", mode |-> "realtime", date |-> None, exit_status |-> -1,
     batch_calls |-> 0, realtime_calls |-> 1]

\* no second engine instance
NoOther == [present |-> FALSE, n |-> 0]

ValidatorIdle ==
    /\ records = <<>>
    /\ vidx = 0
    /\ valid = <<>>
    /\ invalid = <<>>
    /\ vpc = "returned"

\* the realtime engine
Init ==
    /\ PipelineInit
    /\ clock \in StartClocks
    /\ ValidatorIdle
    /\ main = MainInRealtime
    /\ other = NoOther
    /\ window = MaxFetch

Next ==
    \/ CycleStart
    \/ Fetch
    \/ ValidateStage
    \/ Detect
    \/ Alert
    \/ Upload
    \/ Sleep
    \/ InterruptInCycle
    \/ InterruptInSleep

Spec == Init /\ [][Next]_vars

\* the realtime engine fed at most one reading per cycle, with the scheduling
\* of a sequential program: a statement that can run does run, and
\* time.sleep returns
InitLive ==
    /\ PipelineInit
    /\ clock \in StartClocks
    /\ ValidatorIdle
    /\ main = MainInRealtime
    /\ other = NoOther
    /\ window = 1

Fairness ==
    /\ WF_vars(CycleStart)
    /\ WF_vars(Fetch)
    /\ WF_vars(Sleep)

SpecLive == InitLive /\ [][Next]_vars /\ Fairness

\* The engine with a monitor whose calls may raise.
\* monitor.record_cycle_start() raises: the call is outside the try block, so
\* the exception leaves run_realtime_pipeline
MonitorRaisesAtStart ==
    /\ pc = "cycle_start"
    /\ cycle < MaxCycles
    /\ cycle' = cycle + 1
    /\ invoked' = <<Call("record_cycle_start", "raised")>>
    /\ raised' = "record_cycle_start"
    /\ outcomes' = <<>>
    /\ pc' = "crashed"
    /\ UNCHANGED <<raw_data, valid_data, invalid_records, clean_data, anomalies,
                   upload_result, monitor, clock, store, puts>>
    /\ UNCHANGED <<vvars, xvars>>

\* validate returns invalid records and monitor.record_validation_failures
\* raises inside the try block: except Exception
MonitorRaisesInValidate ==
    /\ pc = "validate"
    /\ \A i \in 1..Len(raw_data) : raw_data[i] # NonMapping
    /\ LET res == Validate(raw_data)
       IN  /\ Len(res.invalid) > 0
           /\ valid_data' = res.valid
           /\ invalid_records' = res.invalid
    /\ invoked' = invoked \o <<Call("validate", "returned"),
                              Call("record_validation_failures", "raised")>>
    /\ Fail("record_validation_failures", "MonitorError")
    /\ UNCHANGED <<cycle, raw_data, clean_data, anomalies, upload_result, clock,
                   store, puts>>
    /\ UNCHANGED <<vvars, xvars>>

\* send_alerts returns and monitor.record_anomalies raises inside the try
\* block: except Exception
MonitorRaisesInAlert ==
    /\ pc = "alert"
    /\ invoked' = invoked \o <<Call("alert", "returned"),
                              Call("record_anomalies", "raised")>>
    /\ Fail("record_anomalies", "MonitorError")
    /\ UNCHANGED <<cycle, raw_data, valid_data, invalid_records, clean_data,
                   anomalies, upload_result, clock, store, puts>>
    /\ UNCHANGED <<vvars, xvars>>

\* upload has put the batch and monitor.record_cycle_success raises inside the
\* try block: except Exception
MonitorRaisesAtSuccess ==
    /\ pc = "upload"
    /\ ~IsEmptyData(clean_data)
    /\ \E micro \in Micros :
          LET now == UtcNow(clock, micro)
              req == PutRequest(clean_data, now)
          IN  /\ store' = PutObject(store, req)
              /\ puts' = Append(puts, [by |-> 1, cycle |-> cycle, key |-> req.key,
                                       ok |-> TRUE, body |-> req.body])
              /\ upload_result' = SuccessResult(clean_data, now)
    /\ invoked' = invoked \o <<Call("upload", "returned"),
                              Call("record_cycle_success", "raised")>>
    /\ Fail("record_cycle_success", "MonitorError")
    /\ UNCHANGED <<cycle, raw_data, valid_data, invalid_records, clean_data,
                   anomalies, clock>>
    /\ UNCHANGED <<vvars, xvars>>

\* fetch or detect raises and monitor.record_cycle_failure raises inside the
\* except clause: the exception leaves run_realtime_pipeline
MonitorRaisesAtFailure ==
    /\ pc \in {"fetch", "detect"}
    /\ invoked' = invoked \o <<Call(pc, "raised"),
                              Call("record_cycle_failure", "raised")>>
    /\ raised' = pc
    /\ pc' = "crashed"
    /\ UNCHANGED <<cycle, raw_data, valid_data, invalid_records, clean_data,
                   anomalies, upload_result, outcomes, monitor, clock, store, puts>>
    /\ UNCHANGED <<vvars, xvars>>

NextMonitorFaulty ==
    \/ Next
    \/ MonitorRaisesAtStart
    \/ MonitorRaisesInValidate
    \/ MonitorRaisesInAlert
    \/ MonitorRaisesAtSuccess
    \/ MonitorRaisesAtFailure

SpecMonitorFaulty == InitLive /\ [][NextMonitorFaulty]_vars

\* The command surface: main() after parser.parse_args().
\* --mode is realtime (the default) or batch; --date is absent (None), the
\* empty string or a date
Modes == {"realtime", "batch"}
Dates == {None, Str(<<>>), Str(<<"D">>)}

\* a main that never finds the date missing
DateMissingNever(date) == FALSE

\* not args.date
DateMissing(date) == ~Truthy(date)

MainParsed(mode, date) ==
    [pc |-> "parsed", mode |-> mode, date |-> date, exit_status |-> -1,
     batch_calls |-> 0, realtime_calls |-> 0]

\* the if / elif of main(): run_realtime_pipeline(), or sys.exit(1) when batch
\* mode has no date, or run_batch_pipeline(args.date)
Main ==
    /\ main.pc = "parsed"
    /\ main' = IF main.mode = "realtime"
               THEN [main EXCEPT !.pc = "realtime", !.realtime_calls = @ + 1]
               ELSE IF DateMissing(main.date)
                    THEN [main EXCEPT !.pc = "exited", !.exit_status = 1]
                    ELSE [main EXCEPT !.pc = "batch", !.batch_calls = @ + 1]
    /\ UNCHANGED <<vvars, pvars, other, window>>

\* run_batch_pipeline(batch_date): BatchProcessor().process_date returns and
\* main returns, or it raises and the interpreter exits with status 1
RunBatchPipeline ==
    /\ main.pc = "batch"
    /\ \E status \in {0, 1} : main' = [main EXCEPT !.pc = "exited", !.exit_status = status]
    /\ UNCHANGED <<vvars, pvars, other, window>>

\* run_realtime_pipeline() called from main
RunRealtimePipeline ==
    /\ main.pc = "realtime"
    /\ Next

InitMain ==
    /\ PipelineInit
    /\ clock \in StartClocks
    /\ ValidatorIdle
    /\ \E mode \in Modes, date \in Dates : main = MainParsed(mode, date)
    /\ other = NoOther
    /\ window = 1

NextMain ==
    \/ Main
    \/ RunBatchPipeline
    \/ RunRealtimePipeline

SpecMain == InitMain /\ [][NextMain]_vars

\* A second engine instance running the same loop against the same bucket and
\* prefix, reading the same wall clock.  Of its run one successful upload of
\* a non-empty clean batch is modelled, at any time.
OtherPresent == [present |-> TRUE, n |-> 0]

OtherInstanceUpload ==
    /\ other.present
    /\ other.n = 0
    /\ \E micro \in Micros :
          LET now == UtcNow(clock, micro)
              req == PutRequest(<<Good(<<"s", "s">>)>>, now)
          IN  /\ store' = PutObject(store, req)
              /\ puts' = Append(puts, [by |-> 2, cycle |-> other.n + 1, key |-> req.key,
                                       ok |-> TRUE, body |-> req.body])
    /\ other' = [other EXCEPT !.n = @ + 1]
    /\ UNCHANGED <<pc, cycle, raw_data, valid_data, invalid_records, clean_data,
                   anomalies, upload_result, invoked, raised, outcomes, monitor,
                   clock>>
    /\ UNCHANGED <<vvars, main, window>>

InitTwoInstances ==
    /\ PipelineInit
    /\ clock \in StartClocks
    /\ ValidatorIdle
    /\ main = MainInRealtime
    /\ other = OtherPresent
    /\ window = 1

NextTwoInstances ==
    \/ Next
    \/ OtherInstanceUpload

SpecTwoInstances == InitTwoInstances /\ [][NextTwoInstances]_vars

\* one call of DataValidator.validate on any bounded input
InitValidator ==
    /\ records \in ValidateInputs
    /\ vidx = 0
    /\ valid = <<>>
    /\ invalid = <<>>
    /\ vpc = "loop"
    /\ PipelineInit
    /\ clock = 0
    /\ main = MainInRealtime
    /\ other = NoOther
    /\ window = MaxFetch

NextValidator ==
    \/ ValidateLoop
    \/ ValidateReturn

SpecValidator == InitValidator /\ [][NextValidator]_vars

----------------------------------------------------------------------------
\* Properties of DataValidator.validate (checked under SpecValidator)

Range(seq) == {seq[i] : i \in 1..Len(seq)}

\* the readings validate has classified so far
Processed == SubSeq(records, 1, vidx)

\* the errors of the verdicts that invalid holds for reading r
VerdictsOf(r) == {invalid[j] : j \in {k \in 1..Len(invalid) : invalid[k].record = r}}

MissingMessage(f) ==
    [rule |-> "Missing required field", field |-> f, expected |-> "", got |-> "",
     text |-> <<>>]

\* C1: every reading in which sensor_id, timestamp or temperature is absent
\* or null is in the invalid output with the error "Missing required field:
\* '<name>'" for each such field, and is not in the valid output.
C1_MissingRequiredIsInvalid ==
    \A i \in 1..vidx :
        LET r == records[i]
            missing == {f \in {"sensor_id", "timestamp", "temperature"} :
                            r[f].kind \in {"absent", "NoneType"}}
        IN  missing # {} =>
                /\ r \notin Range(valid)
                /\ VerdictsOf(r) # {}
                /\ \A v \in VerdictsOf(r) :
                       \A f \in missing : MissingMessage(f) \in Range(v.errors)

C1_Witness ==
    /\ vpc = "returned"
    /\ \E i \in 1..Len(records) :
          /\ records[i]["sensor_id"].kind = "NoneType"
          /\ records[i]["temperature"].kind = "absent"
          /\ records[i] \notin Range(valid)
          /\ \E j \in 1..Len(invalid) : invalid[j].record = records[i]

\* C2: validate partitions its input: the classified readings are split
\* position by position between valid and the records of invalid, so the two
\* lengths add up to the number of readings, and both outputs keep the input
\* order.
C2_ValidatePartitionsInOrder ==
    /\ Len(valid) + Len(invalid) = vidx
    /\ \E keep \in SUBSET (1..vidx) :
          /\ valid = Pick(Processed, keep, 1)
          /\ [j \in 1..Len(invalid) |-> invalid[j].record]
                = Pick(Processed, (1..vidx) \ keep, 1)
    /\ vpc = "returned" => vidx = Len(records)

C2_Witness ==
    /\ vpc = "returned"
    /\ Len(records) = 3
    /\ Len(valid) = 2
    /\ valid[1] # valid[2]
    /\ valid = <<records[1], records[3]>>
    /\ Len(invalid) = 1
    /\ invalid[1].record = records[2]

\* the declared kind of a known field: string for sensor_id and timestamp,
\* numeric for the measurements
OfDeclaredKind(f, v) ==
    IF f \in {"sensor_id", "timestamp"} THEN v.kind = "str"
    ELSE v.kind \in {"int", "float"}

\* C3: every known field that is present and non-null and whose value is not
\* of the field's declared kind gets a type error, and the reading is not in
\* the valid output.
C3_TypeMismatchFlagged ==
    \A i \in 1..vidx : \A f \in Fields :
        LET r == records[i]
        IN  (r[f].kind \notin {"absent", "NoneType"} /\ ~OfDeclaredKind(f, r[f])) =>
                /\ r \notin Range(valid)
                /\ VerdictsOf(r) # {}
                /\ \A v \in VerdictsOf(r) :
                       \E e \in Range(v.errors) : e.rule = "Invalid type" /\ e.field = f

\* a timestamp text that is an ISO-8601 instant: a date-time body, optionally
\* followed by an offset or by a trailing Z
ParsesAsInstant(s) == s \in {<<"D">>, <<"D", "O">>, <<"D", "Z">>}

\* C4: every reading whose timestamp is a string that does not parse as an
\* ISO-8601 instant gets a timestamp-format error and is invalid, and every
\* reading in the valid output has a timestamp that parses.
C4_UnparseableTimestampInvalid ==
    /\ \A i \in 1..vidx :
          LET r == records[i]
          IN  (r["timestamp"].kind = "str" /\ ~ParsesAsInstant(r["timestamp"].s)) =>
                  /\ r \notin Range(valid)
                  /\ VerdictsOf(r) # {}
                  /\ \A v \in VerdictsOf(r) :
                         \E e \in Range(v.errors) : e.rule = "Invalid timestamp format"
    /\ \A j \in 1..Len(valid) :
          /\ valid[j]["timestamp"].kind = "str"
          /\ ParsesAsInstant(valid[j]["timestamp"].s)

----------------------------------------------------------------------------
\* Properties of S3Uploader.upload and run_realtime_pipeline (checked under
\* Spec)

DigitVal(c) == CHOOSE n \in 0..9 : Digit(n) = c

\* the number a two-digit text stands for
Num2(t) == 10 * DigitVal(t[1]) + DigitVal(t[2])

\* the storage key spelled from the digits of an isoformat timestamp
\* YYYY-MM-DDTHH:MM:SS[.ffffff]
KeyOfTimestamp(ts) ==
    <<"clean-data/", "year=">> \o SubSeq(ts, 1, 4)
    \o <<"/", "month=">> \o SubSeq(ts, 6, 7)
    \o <<"/", "day=">> \o SubSeq(ts, 9, 10)
    \o <<"/">> \o SubSeq(ts, 12, 13) \o <<"-">> \o SubSeq(ts, 15, 16)
    \o <<"-">> \o SubSeq(ts, 18, 19) \o <<"-readings.json">>

\* clean-data/year=2024/month=03/day=07/09-05-33-readings.json
ExampleKey ==
    <<"clean-data/", "year=", "2", "0", "2", "4", "/", "month=", "0", "3", "/",
      "day=", "0", "7", "/", "0", "9", "-", "0", "5", "-", "3", "3",
      "-readings.json">>

\* clean-data/year=2025/month=01/day=01/00-00-00-readings.json
NewYearKey ==
    <<"clean-data/", "year=", "2", "0", "2", "5", "/", "month=", "0", "1", "/",
      "day=", "0", "1", "/", "0", "0", "-", "0", "0", "-", "0", "0",
      "-readings.json">>

Returned(stage) == Call(stage, "returned") \in Range(invoked)
Invoked(stage) == \E i \in 1..Len(invoked) : invoked[i].stage = stage

\* upload has just put a batch: the engine is at the sleep of that cycle
JustUploaded ==
    /\ pc = "sleep"
    /\ Returned("upload")
    /\ upload_result.status = "success"

C6_EmptyUploadSkips ==
    [][(pc = "upload" /\ Len(clean_data) = 0) =>
          /\ store' = store
          /\ puts' = puts
          /\ pc' = "sleep" =>
                /\ upload_result'.status = "skipped"
                /\ invoked'[Len(invoked')] = Call("upload", "returned")]_vars

C6_Witness ==
    /\ pc = "sleep"
    /\ cycle = 2
    /\ Len(clean_data) = 0
    /\ invoked[Len(invoked)] = Call("upload", "returned")
    /\ upload_result.status = "skipped"
    /\ Cardinality(store) = 1
    /\ Len(puts) = 1

\* C7: once fetch, validate, detect or upload has raised in a cycle, no later
\* stage of that cycle is invoked and a failure outcome is recorded for the
\* cycle; when detect raises, upload is not called and nothing is put.
C7_RaiseEndsCycle ==
    /\ \A i \in 1..Len(invoked) :
          (invoked[i].end = "raised"
              /\ invoked[i].stage \in {"fetch", "validate", "detect", "upload"}) =>
             /\ i = Len(invoked)
             /\ pc \in {"sleep", "cycle_start", "aborted"}
             /\ Len(outcomes) = 1
             /\ outcomes[1].kind = "failure"
    /\ Call("detect", "raised") \in Range(invoked) =>
          /\ ~Invoked("upload")
          /\ \A k \in 1..Len(puts) : puts[k].cycle # cycle

C7_Witness ==
    /\ pc = "sleep"
    /\ cycle = 2
    /\ Len(puts) = 1
    /\ invoked = <<Call("fetch", "returned"), Call("validate", "returned"),
                   Call("detect", "raised")>>
    /\ Len(valid_data) > 0

\* C8: a cycle in which no collaborator raises and which ends with zero clean
\* readings is recorded as a success, never as a failure.
C8_EmptyCycleIsSuccess ==
    (/\ pc = "sleep"
     /\ \A i \in 1..Len(invoked) : invoked[i].end = "returned"
     /\ Len(clean_data) = 0)
    => /\ Len(outcomes) = 1
       /\ outcomes[1].kind = "success"

\* C9 as stated: after fetch returned zero readings the validator, detector
\* and uploader are not invoked, and after validation returned zero valid
\* readings the detector and uploader are not invoked.
C9_EmptyStagesSkipped ==
    /\ (Returned("fetch") /\ Len(raw_data) = 0) =>
          ~Invoked("validate") /\ ~Invoked("detect") /\ ~Invoked("upload")
    /\ (Returned("validate") /\ Len(valid_data) = 0) =>
          ~Invoked("detect") /\ ~Invoked("upload")

\* C9 as amended: each stage is entered whenever, and only when, the previous
\* stage returned, however many readings it produced: after fetch returned
\* (also zero readings) the validator is invoked next, after validate returned
\* (also zero valid readings) the detector is invoked next, and after detect
\* returned no anomaly the uploader is invoked next.
C9_StagesEnteredAlsoWhenEmpty ==
    /\ Returned("fetch") => (pc = "validate" \/ Invoked("validate"))
    /\ Returned("validate") => (pc = "detect" \/ Invoked("detect"))
    /\ (Returned("detect") /\ Len(anomalies) = 0) => (pc = "upload" \/ Invoked("upload"))
    /\ (pc = "validate" \/ Invoked("validate")) => Returned("fetch")
    /\ (pc = "detect" \/ Invoked("detect")) => Returned("validate")
    /\ (pc = "upload" \/ Invoked("upload")) => Returned("detect")
    /\ (Returned("validate") /\ Len(raw_data) = 0) => Len(valid_data) = 0

C9_Witness ==
    /\ pc = "sleep"
    /\ Len(raw_data) = 0
    /\ invoked = <<Call("fetch", "returned"), Call("validate", "returned"),
                   Call("detect", "returned"), Call("upload", "returned")>>

\* C10: every cycle that was started has recorded exactly one terminal
\* outcome when the engine leaves it: at the sleep, and when the loop has
\* ended, also by an operator interrupt.
C10_OneOutcomePerCycle ==
    /\ Len(outcomes) <= 1
    /\ (cycle > 0 /\ pc \in {"sleep", "cycle_start", "stopped", "aborted"}) =>
          Len(outcomes) = 1

\* C11: an operator interrupt takes effect only between cycles: no call of a
\* cycle in flight is cut short by it, and when the loop has ended the last
\* cycle has run to its recorded outcome.
C11_InterruptOnlyWhenIdle ==
    /\ \A i \in 1..Len(invoked) : invoked[i].end # "interrupted"
    /\ (cycle > 0 /\ pc \in {"stopped", "aborted"}) =>
          /\ Len(outcomes) = 1
          /\ Invoked("upload") \/ raised # "none"

\* C13: when send_alerts raises, the cycle is not failed by it: the clean
\* readings still go to upload.
C13_AlertFailureHarmless ==
    Call("alert", "raised") \in Range(invoked) =>
        /\ raised # "alert"
        /\ pc = "upload" \/ Invoked("upload")

\* the readings of seq that _validate_record accepts, in order
ValidOnes(seq) == SelectSeq(seq, LAMBDA r : ValidateRecord(r).is_valid)

\* C15: the batch put in a successful cycle holds exactly the clean readings
\* of that cycle, in order: readings of the fetched data that the validator
\* accepted and the detector did not flag; record_count is their number in
\* the payload, the metadata and the result; no reading the validator
\* rejects is ever put.
C15_BatchIsValidAndClean ==
    /\ \A o \in store :
          \A r \in Range(o.body.records) : ValidateRecord(r).is_valid
    /\ JustUploaded =>
          LET body == puts[Len(puts)].body
          IN  /\ valid_data = ValidOnes(raw_data)
              /\ \E keep \in SUBSET (1..Len(valid_data)) :
                    /\ clean_data = Pick(valid_data, keep, 1)
                    /\ anomalies = Pick(valid_data, (1..Len(valid_data)) \ keep, 1)
              /\ body.records = clean_data
              /\ body.record_count = Len(clean_data)
              /\ upload_result.record_count = Len(clean_data)
              /\ \E o \in store :
                    /\ o.key = upload_result.s3_key
                    /\ o.body = body
                    /\ o.metadata.record_count = DecStr(Len(clean_data))

C15_Witness ==
    /\ JustUploaded
    /\ raw_data = <<Good(<<"s">>), MissingId>>
    /\ Len(invalid_records) = 1
    /\ Len(anomalies) = 0
    /\ upload_result.record_count = 1
    /\ puts[Len(puts)].body.records = <<Good(<<"s">>)>>

\* C19: each cycle issues at most one put; a put that fails ends the cycle
\* with a failure and is not tried again; and a put writes the clean readings
\* of the cycle that issues it, taken from the data fetched in that cycle.
C19_AtMostOnePutPerCycle ==
    /\ \A i, j \in 1..Len(puts) : i < j => puts[i].cycle < puts[j].cycle
    /\ Call("upload", "raised") \in Range(invoked) =>
          /\ invoked[Len(invoked)] = Call("upload", "raised")
          /\ pc \in {"sleep", "cycle_start", "aborted"}
          /\ Len(outcomes) = 1
          /\ outcomes[1].kind = "failure"
    /\ \A k \in 1..Len(puts) :
          (puts[k].cycle = cycle /\ puts[k].ok) =>
             /\ Returned("fetch")
             /\ puts[k].body.records = clean_data
             /\ Range(clean_data) \subseteq Range(raw_data)
             /\ \E o \in store : o.key = puts[k].key /\ o.body = puts[k].body

C19_Witness ==
    /\ pc = "sleep"
    /\ cycle = 2
    /\ Len(puts) = 2
    /\ ~puts[1].ok
    /\ puts[2].ok
    /\ Len(invalid_records) = 0
    /\ Len(anomalies) = 0
    /\ \A o \in store : o.key = puts[2].key /\ o.body.records = clean_data

StagesThatRaise == {"fetch", "validate", "detect", "upload"}

\* C12: a cycle in which fetch, validate, detect or upload raised has its
\* failure recorded and ends in the sleep; the sleep lasts at least the poll
\* interval and leads back to the head of the loop, never out of it; and,
\* unless an operator interrupt ends the loop, the next cycle starts and calls
\* fetch_latest_readings again.
C12_FailureThenNextCycle ==
    /\ [](raised \in StagesThatRaise =>
            /\ pc \in {"sleep", "cycle_start", "aborted"}
            /\ Len(outcomes) = 1
            /\ outcomes[1].kind = "failure"
            /\ monitor.failures >= 1)
    /\ [][(pc = "sleep" /\ pc' # "sleep") =>
            \/ pc' = "aborted"
            \/ pc' = "cycle_start" /\ clock' >= clock + POLL_INTERVAL]_vars
    /\ \A c \in 1..(MaxCycles - 1) :
          (cycle = c /\ raised \in StagesThatRaise)
             ~> \/ cycle = c + 1 /\ Invoked("fetch")
                \/ pc \in {"stopped", "aborted"}

C12_Witness ==
    /\ cycle = 2
    /\ monitor.failures = 1
    /\ monitor.cycles_started = 2
    /\ Returned("fetch")
    /\ clock \in {t + POLL_INTERVAL + o : t \in StartClocks, o \in Overruns}

MonitorCalls ==
    {"record_cycle_start", "record_validation_failures", "record_anomalies",
     "record_cycle_success", "record_cycle_failure"}

\* C14: a monitor call that raises changes nothing in the data flow: the loop
\* is not terminated by it, the following stages of the cycle are still
\* executed (detect after record_validation_failures, upload after
\* record_anomalies) and the exception is not taken for a failure of the cycle.
C14_MonitorFailureHarmless ==
    /\ pc # "crashed"
    /\ raised \notin MonitorCalls
    /\ Call("record_validation_failures", "raised") \in Range(invoked) =>
          pc = "detect" \/ Invoked("detect")
    /\ Call("record_anomalies", "raised") \in Range(invoked) =>
          pc = "upload" \/ Invoked("upload")

\* C16: in batch mode without a date (none given, or the empty string) main
\* exits with a non-zero status and the batch driver is never invoked; in
\* batch mode with a date the batch driver is invoked exactly once; in batch
\* mode the realtime loop is never started.
C16_BatchNeedsDate ==
    (main.mode = "batch" /\ main.pc # "parsed") =>
        /\ main.realtime_calls = 0
        /\ cycle = 0
        /\ pc = "cycle_start"
        /\ IF main.date = None \/ main.date = Str(<<>>)
           THEN /\ main.pc = "exited"
                /\ main.exit_status > 0
                /\ main.batch_calls = 0
           ELSE /\ main.pc \in {"batch", "exited"}
                /\ main.batch_calls = 1

C16_Witness ==
    /\ main.mode = "batch"
    /\ main.date = None
    /\ main.pc = "exited"
    /\ main.exit_status = 1
    /\ main.batch_calls = 0

\* the four rules, in the order they are applied
RuleOrder ==
    <<"Missing required field", "Invalid type", "Invalid timestamp format",
      "sensor_id cannot be empty">>

RuleIndex(rule) == CHOOSE k \in 1..Len(RuleOrder) : RuleOrder[k] = rule

\* the rules a reading violates, as the rules are stated: a required field
\* absent or null; a known field present, non-null and not of its declared
\* kind; a timestamp present, non-null and not an ISO-8601 instant; a
\* sensor_id string that is empty or whitespace only
ViolatedRules(r) ==
    {rule \in Range(RuleOrder) :
        \/ /\ rule = "Missing required field"
           /\ \E f \in Range(REQUIRED_FIELDS) : r[f].kind \in {"absent", "NoneType"}
        \/ /\ rule = "Invalid type"
           /\ \E f \in Fields :
                 r[f].kind \notin {"absent", "NoneType"} /\ ~OfDeclaredKind(f, r[f])
        \/ /\ rule = "Invalid timestamp format"
           /\ r["timestamp"].kind \notin {"absent", "NoneType"}
           /\ ~(r["timestamp"].kind = "str" /\ ParsesAsInstant(r["timestamp"].s))
        \/ /\ rule = "sensor_id cannot be empty"
           /\ r["sensor_id"].kind = "str"
           /\ StripIsEmpty(r["sensor_id"].s)}

\* C17: for every reading classified so far, the reading is in the valid
\* output exactly when it violates none of the four rules; otherwise its
\* verdict has errors for exactly the violated rules, in rule order; and no
\* verdict of the invalid output has an empty error list.
C17_ErrorsPerViolatedRule ==
    /\ \A i \in 1..vidx :
          LET r == records[i]
          IN  /\ r \in Range(valid) <=> ViolatedRules(r) = {}
              /\ ViolatedRules(r) # {} =>
                    /\ VerdictsOf(r) # {}
                    /\ \A v \in VerdictsOf(r) :
                          /\ {v.errors[k].rule : k \in 1..Len(v.errors)} = ViolatedRules(r)
                          /\ \A k \in 1..(Len(v.errors) - 1) :
                                RuleIndex(v.errors[k].rule) <= RuleIndex(v.errors[k + 1].rule)
    /\ \A j \in 1..Len(invalid) : Len(invalid[j].errors) > 0

\* C18: the failure outcome recorded for a cycle names the stage that raised
\* and carries the counts obtained before it: when detect raised, the stage is
\* detect and the counts are those of the fetched, valid and invalid readings.
C18_FailureNamesStageAndCounts ==
    \A k \in 1..Len(outcomes) :
        (outcomes[k].kind = "failure" /\ raised = "detect") =>
            /\ "stage" \in DOMAIN outcomes[k]
            /\ outcomes[k].stage = "detect"
            /\ outcomes[k].records_processed = Len(raw_data)
            /\ "records_valid" \in DOMAIN outcomes[k]
            /\ outcomes[k].records_valid = Len(valid_data)
            /\ "records_invalid" \in DOMAIN outcomes[k]
            /\ outcomes[k].records_invalid = Len(invalid_records)

\* the last successful put under key
LatestPut(key) ==
    puts[CHOOSE k \in 1..Len(puts) :
            /\ puts[k].ok /\ puts[k].key = key
            /\ \A m \in (k + 1)..Len(puts) : ~(puts[m].ok /\ puts[m].key = key)]

\* C20: cycles of the first instance do not overlap: a cycle starts only from
\* the head of the loop, after the previous cycle recorded its outcome, and
\* the head of the loop is reached again only through a sleep of at least the
\* poll interval; no two puts of one instance have the same key; the store
\* holds under each key the batch of the latest successful put with that key,
\* so a batch of an instance is replaced only by a put of another instance.
C20_KeysDistinctPerInstance ==
    /\ [][cycle' # cycle =>
            /\ pc = "cycle_start"
            /\ cycle' = cycle + 1
            /\ cycle > 0 => Len(outcomes) = 1]_vars
    /\ [][(pc # "cycle_start" /\ pc' = "cycle_start") =>
            /\ pc = "sleep"
            /\ clock' >= clock + POLL_INTERVAL]_vars
    /\ [](\A i, j \in 1..Len(puts) :
            (i < j /\ puts[i].by = puts[j].by) => puts[i].key # puts[j].key)
    /\ [](\A o \in store : o.body = LatestPut(o.key).body)
    /\ [](\A k \in 1..Len(puts) :
            puts[k].ok => \E o \in store :
                /\ o.key = puts[k].key
                /\ o.body = puts[k].body \/ LatestPut(o.key).by # puts[k].by)

\* two instances have put under one key within one second, and the store
\* holds only the later batch
C20_Witness ==
    \E i, j \in 1..Len(puts) :
        /\ i < j
        /\ puts[i].ok /\ puts[j].ok
        /\ puts[i].by # puts[j].by
        /\ puts[i].key = puts[j].key
        /\ puts[i].body # puts[j].body
        /\ \A o \in store : o.key = puts[i].key => o.body = puts[j].body
        /\ \E o \in store : o.key = puts[i].key

====
